---------------------------- MODULE Spec2Model ----------------------------
(***************************************************************************)
(* A model of the 3d-engine repository: the vector math and geometry of    *)
(* src/lib/modules/geometry.ts, the Camera and Renderer of                 *)
(* src/lib/modules/types.ts (the visuals module), and the useFile hook of  *)
(* src/lib/Engine.tsx.                                                     *)
(*                                                                         *)
(* Numbers.  The source computes with IEEE doubles.  The model computes    *)
(* with exact rationals [n, d] in lowest terms, d > 0, plus the value NaN  *)
(* (d = 0).  Inputs are drawn from the values on which every step of the   *)
(* pipeline is rational: angles that are multiples of 90 degrees, vectors  *)
(* whose length is rational, a field of view of 90 degrees.  Outside that  *)
(* domain Sqrt, Cos, Sin and TanHalf are undefined and TLC stops.          *)
(***************************************************************************)
EXTENDS Integers, Sequences, FiniteSets

(***************************************************************************)
(* number                                                                  *)
(***************************************************************************)
Abs(n) == IF n < 0 THEN -n ELSE n

RECURSIVE GCD(_, _)
GCD(a, b) == IF b = 0 THEN a ELSE GCD(b, a % b)

NaN == [n |-> 0, d |-> 0]

IsNaN(a) == a.d = 0

\* The rational n/d in lowest terms, for d # 0.
Rat(n, d) ==
    LET g == GCD(Abs(n), Abs(d))
        s == IF d < 0 THEN -1 ELSE 1
    IN  [n |-> s * (n \div g), d |-> s * (d \div g)]

Num(n) == [n |-> n, d |-> 1]

\* The operations divide by common factors first, which keeps the
\* intermediate products small.
Add(a, b) ==
    IF IsNaN(a) \/ IsNaN(b) THEN NaN
    ELSE LET g == GCD(a.d, b.d)
         IN  Rat(a.n * (b.d \div g) + b.n * (a.d \div g), (a.d \div g) * b.d)

Sub(a, b) == IF IsNaN(a) \/ IsNaN(b) THEN NaN ELSE Add(a, [n |-> -b.n, d |-> b.d])

Mul(a, b) ==
    IF IsNaN(a) \/ IsNaN(b) THEN NaN
    ELSE LET g1 == GCD(Abs(a.n), b.d)
             g2 == GCD(Abs(b.n), a.d)
         IN  Rat((a.n \div g1) * (b.n \div g2), (a.d \div g2) * (b.d \div g1))

\* a / b.  0/0 is NaN.  A nonzero value over 0 (an infinity in the source)
\* does not arise: the only unguarded divisors are a vector's length, which
\* is 0 only for the zero vector, and the literal 3.
Div(a, b) ==
    IF IsNaN(a) \/ IsNaN(b) \/ b.n = 0 THEN NaN
    ELSE Mul(a, IF b.n < 0 THEN [n |-> -b.d, d |-> -b.n] ELSE [n |-> b.d, d |-> b.n])

Neg(a) == IF IsNaN(a) THEN NaN ELSE [n |-> -a.n, d |-> a.d]

\* Comparisons with NaN are false, as in the source language.
Lt(a, b)  == ~IsNaN(a) /\ ~IsNaN(b) /\ a.n * b.d < b.n * a.d

Leq(a, b) == ~IsNaN(a) /\ ~IsNaN(b) /\ a.n * b.d <= b.n * a.d

Geq(a, b) == Leq(b, a)

\* Math.floor
Floor(a) == IF IsNaN(a) THEN NaN ELSE Num(a.n \div a.d)

\* Math.sqrt on the rationals that are squares of rationals.
ISqrt(n) == CHOOSE r \in 0..n : r * r = n

Sqrt(a) == IF IsNaN(a) THEN NaN ELSE Rat(ISqrt(a.n), ISqrt(a.d))

\* Math.cos / Math.sin of an angle given in degrees (the source multiplies by
\* Math.PI / 180 first), on the multiples of 90 degrees.
Quadrant(deg) == CASE deg.d = 1 /\ deg.n % 90 = 0 -> (deg.n \div 90) % 4

Cos(deg) == LET q == Quadrant(deg) IN Num(CASE q = 0 -> 1 [] q = 1 -> 0 [] q = 2 -> -1 [] q = 3 -> 0)

Sin(deg) == LET q == Quadrant(deg) IN Num(CASE q = 0 -> 0 [] q = 1 -> 1 [] q = 2 -> 0 [] q = 3 -> -1)

\* Math.tan(fieldOfView / 2) for the field of view given in degrees.
TanHalf(fov) == CASE fov = Num(90) -> Num(1)

(***************************************************************************)
(* Vec3d                                                                   *)
(***************************************************************************)
Vec3d(x, y, z) == [x |-> x, y |-> y, z |-> z]

\* A vector with integer components.
V(x, y, z) == Vec3d(Num(x), Num(y), Num(z))

\* Vec3d.rotate: three 2x2 rotation matrices, applied in the order x, y, z.
RotationMatrix(deg) == << <<Cos(deg), Neg(Sin(deg))>>, <<Sin(deg), Cos(deg)>> >>

RotateX(v, m) ==
    Vec3d(v.x,
          Add(Mul(m[1][1], v.y), Mul(m[2][1], v.z)),
          Add(Mul(m[1][2], v.y), Mul(m[2][2], v.z)))

RotateY(v, m) ==
    Vec3d(Add(Mul(m[1][1], v.x), Mul(m[2][1], v.z)),
          v.y,
          Add(Mul(m[1][2], v.x), Mul(m[2][2], v.z)))

RotateZ(v, m) ==
    Vec3d(Add(Mul(m[1][1], v.x), Mul(m[2][1], v.y)),
          Add(Mul(m[1][2], v.x), Mul(m[2][2], v.y)),
          v.z)

Vec3dRotate(this, vector) ==
    RotateZ(RotateY(RotateX(this, RotationMatrix(vector.x)),
                    RotationMatrix(vector.y)),
            RotationMatrix(vector.z))

\* Vec3d.multiplyByMatrix.  The source assigns this.x, then this.y, then
\* this.z, each from the fields as they are at that moment; matrix[i][j] of
\* the source is matrix[i+1][j+1] here.
Column(v, matrix, j) ==
    Add(Add(Add(Mul(v.x, matrix[1][j]), Mul(v.y, matrix[2][j])), Mul(v.z, matrix[3][j])),
        matrix[4][j])

AssignX(v, matrix) == [v EXCEPT !.x = Column(v, matrix, 1)]

AssignY(v, matrix) == [v EXCEPT !.y = Column(v, matrix, 2)]

AssignZ(v, matrix) == [v EXCEPT !.z = Column(v, matrix, 3)]

\* if (w !== 0) { this.x /= w; this.y /= w; this.z /= w }
DivideByW(v, w) ==
    IF w # Num(0) THEN Vec3d(Div(v.x, w), Div(v.y, w), Div(v.z, w)) ELSE v

AssignW(v, matrix) == DivideByW(v, Column(v, matrix, 4))

multiplyByMatrix(this, matrix) ==
    AssignW(AssignZ(AssignY(AssignX(this, matrix), matrix), matrix), matrix)

\* Vec3d.dot
dot(this, vector) ==
    Add(Add(Mul(vector.x, this.x), Mul(vector.y, this.y)), Mul(vector.z, this.z))

\* Vec3d.normalize
DivideBy(v, length) == Vec3d(Div(v.x, length), Div(v.y, length), Div(v.z, length))

normalize(this) ==
    DivideBy(this, Sqrt(Add(Add(Mul(this.x, this.x), Mul(this.y, this.y)), Mul(this.z, this.z))))

\* Vec3d.project
CameraRelative(this, position) ==
    Vec3d(Sub(this.x, position.x), Sub(this.y, position.y), Sub(this.z, position.z))

ToPixels(clip, renderer) ==
    Vec3d(Mul(Add(clip.x, Num(1)), Mul(Rat(1, 2), renderer.width)),
          Mul(Add(clip.y, Num(1)), Mul(Rat(1, 2), renderer.height)),
          clip.z)

Vec3dProject(this, renderer) ==
    ToPixels(multiplyByMatrix(Vec3dRotate(CameraRelative(this, renderer.camera.position),
                                          renderer.camera.rotation),
                              renderer.projectionMatrix),
             renderer)

(***************************************************************************)
(* Triangle                                                                *)
(***************************************************************************)
\* The color field before drawShaded has written it.
NoColor == << >>

\* Triangle.recalculateNormals
recalculateNormals(t) ==
    [t EXCEPT !.normal = normalize(Vec3d(
        Sub(Mul(Sub(t.B.y, t.A.y), Sub(t.C.z, t.A.z)), Mul(Sub(t.B.z, t.A.z), Sub(t.C.y, t.A.y))),
        Sub(Mul(Sub(t.B.z, t.A.z), Sub(t.C.x, t.A.x)), Mul(Sub(t.B.x, t.A.x), Sub(t.C.z, t.A.z))),
        Sub(Mul(Sub(t.B.x, t.A.x), Sub(t.C.y, t.A.y)), Mul(Sub(t.B.y, t.A.y), Sub(t.C.x, t.A.x)))))]

\* Triangle.recalculateCenter
recalculateCenter(t) ==
    [t EXCEPT !.center = Vec3d(
        Div(Add(Add(t.A.x, t.B.x), t.C.x), Num(3)),
        Div(Add(Add(t.A.y, t.B.y), t.C.y), Num(3)),
        Div(Add(Add(t.A.z, t.B.z), t.C.z), Num(3)))]

\* new Triangle(A, B, C)
Triangle(A, B, C) ==
    recalculateCenter(recalculateNormals(
        [A |-> A, B |-> B, C |-> C, normal |-> V(0, 0, 0), center |-> V(0, 0, 0),
         color |-> NoColor]))

\* Triangle.setLocation
VecAdd(v, position) == Vec3d(Add(v.x, position.x), Add(v.y, position.y), Add(v.z, position.z))

\* Triangle.setLocation with a fault: the center is not recalculated.
setLocationStale(t, position) ==
    [t EXCEPT !.A = VecAdd(t.A, position),
              !.B = VecAdd(t.B, position),
              !.C = VecAdd(t.C, position)]

setLocation(t, position) ==
    recalculateCenter([t EXCEPT !.A = VecAdd(t.A, position),
                                !.B = VecAdd(t.B, position),
                                !.C = VecAdd(t.C, position)])

\* Triangle.project
TriangleProject(t, renderer) ==
    [t EXCEPT !.A = Vec3dProject(t.A, renderer),
              !.B = Vec3dProject(t.B, renderer),
              !.C = Vec3dProject(t.C, renderer)]

\* Triangle.rotate
TriangleRotate(t, vector) ==
    recalculateCenter(recalculateNormals(
        [t EXCEPT !.A = Vec3dRotate(t.A, vector),
                  !.B = Vec3dRotate(t.B, vector),
                  !.C = Vec3dRotate(t.C, vector)]))

(***************************************************************************)
(* Camera and Renderer                                                     *)
(***************************************************************************)
\* new Camera(position, rotation, fieldOfView, nearPlane, farPlane): args
\* holds the arguments that are supplied.  The field of view is kept in
\* degrees here (radians in the source).
ClampFov(fov) ==
    LET lo == IF Leq(fov, Num(60)) THEN Num(60) ELSE fov
    IN  IF Geq(lo, Num(120)) THEN Num(120) ELSE lo

Camera(args) ==
    [position    |-> IF "position" \in DOMAIN args THEN args.position ELSE V(0, 0, 0),
     rotation    |-> IF "rotation" \in DOMAIN args THEN args.rotation ELSE V(0, 0, 0),
     nearPlane   |-> IF "nearPlane" \in DOMAIN args THEN args.nearPlane ELSE Rat(1, 10),
     farPlane    |-> IF "farPlane" \in DOMAIN args THEN args.farPlane ELSE Num(1000),
     fieldOfView |-> ClampFov(IF "fieldOfView" \in DOMAIN args THEN args.fieldOfView ELSE Num(90))]

\* Camera.getDifference
getDifference(cam, triangle) ==
    dot(triangle.normal, Vec3d(Sub(triangle.center.x, cam.position.x),
                               Sub(triangle.center.y, cam.position.y),
                               Sub(triangle.center.z, cam.position.z)))

\* Camera.getProjectionMatrix
getProjectionMatrix(cam, aspectRatio) ==
    LET z   == Num(0)
        m11 == Div(Num(1), TanHalf(cam.fieldOfView))
        m00 == Mul(aspectRatio, m11)
        m22 == Sub(Div(cam.farPlane, cam.farPlane), cam.nearPlane)
        m32 == Div(Mul(Neg(cam.farPlane), cam.nearPlane), Sub(cam.farPlane, cam.nearPlane))
    IN  << <<m00, z, z, z>>,
           <<z, m11, z, z>>,
           <<z, z, m22, Num(1)>>,
           <<z, z, m32, z>> >>

\* new Renderer(height, width, camera, meshList); the mesh list is the state
\* variable meshes.
Renderer(height, width, cam) ==
    [height |-> height, width |-> width, camera |-> cam,
     aspectRatio |-> Div(height, width),
     projectionMatrix |-> getProjectionMatrix(cam, Div(height, width))]

(***************************************************************************)
(* Strings are sequences of one-character strings.                         *)
(***************************************************************************)
HexDigits == <<"0", "1", "2", "3", "4", "5", "6", "7", "8", "9", "a", "b", "c", "d", "e", "f">>

UpperHex == <<"A", "B", "C", "D", "E", "F">>

\* [0-9A-Fa-f]
IsHexDigit(ch) ==
    \/ \E i \in 1..16 : HexDigits[i] = ch
    \/ \E i \in 1..6 : UpperHex[i] = ch

HexValue(ch) ==
    IF \E i \in 1..16 : HexDigits[i] = ch
    THEN (CHOOSE i \in 1..16 : HexDigits[i] = ch) - 1
    ELSE (CHOOSE i \in 1..6 : UpperHex[i] = ch) + 9

\* String.prototype.slice(start, end) for 0 <= start <= end
slice(s, start, end) == SubSeq(s, start + 1, IF end < Len(s) THEN end ELSE Len(s))

\* parseInt(`0x${s}`): the hexadecimal digits that lead s; NaN when none does.
RECURSIVE HexPrefix(_, _, _)
HexPrefix(s, i, acc) ==
    IF i > Len(s) \/ ~IsHexDigit(s[i]) THEN acc
    ELSE HexPrefix(s, i + 1, 16 * acc + HexValue(s[i]))

parseIntHex(s) == IF s = << >> \/ ~IsHexDigit(s[1]) THEN NaN ELSE Num(HexPrefix(s, 1, 0))

\* Number.prototype.toString(16) of a non-negative integer or NaN
RECURSIVE HexString(_)
HexString(n) ==
    IF n < 16 THEN <<HexDigits[n + 1]>>
    ELSE HexString(n \div 16) \o <<HexDigits[(n % 16) + 1]>>

toString16(a) == IF IsNaN(a) THEN <<"N", "a", "N">> ELSE HexString(a.n)

(***************************************************************************)
(* drawMethod and MeshConfig                                               *)
(***************************************************************************)
VERTEX == 1

CROSSES == 2

WIRE == 3

SHADED == 4

White == <<"#", "F", "F", "F", "F", "F", "F">>

\* /^#?([0-9A-Fa-f]{6})$/.test(color)
ColorPattern(color) ==
    LET digits == IF color # << >> /\ color[1] = "#" THEN Tail(color) ELSE color
    IN  Len(digits) = 6 /\ \A i \in 1..6 : IsHexDigit(digits[i])

\* new MeshConfig(config).  config holds the options that are supplied; an
\* option that is missing or falsy gets its default.  Vec3d objects that the
\* mesh later shares live in the heap vec3d: initialRotation is the address
\* addr of the supplied vector (or of the fresh new Vec3d(0, 0, 0)).
Supplied(config, f) == f \in DOMAIN config

MeshConfig(config, addr) ==
    LET color == IF Supplied(config, "color") /\ config.color # << >>
                 THEN config.color ELSE White
    IN  [position         |-> IF Supplied(config, "position") THEN config.position ELSE V(0, 0, 0),
         initialRotation  |-> addr,
         culling          |-> Supplied(config, "culling") /\ config.culling,
         color            |-> IF ColorPattern(color) THEN color ELSE White,
         draw             |-> IF Supplied(config, "draw") /\ config.draw # 0
                              THEN config.draw ELSE WIRE,
         rotationEnabled  |-> Supplied(config, "rotationEnabled") /\ config.rotationEnabled,
         rotationSpeed    |-> IF Supplied(config, "rotationSpeed")
                                 /\ config.rotationSpeed # Num(0) /\ ~IsNaN(config.rotationSpeed)
                              THEN config.rotationSpeed ELSE Rat(1, 2),
         rotationAxisList |-> IF Supplied(config, "rotationAxisList")
                              THEN config.rotationAxisList ELSE << <<"y">> >>,
         lightSource      |-> normalize(IF Supplied(config, "lightSource")
                                        THEN config.lightSource ELSE V(0, 0, -1))]

InvalidColorCode == "Invalid color code provided, defaulting to white! Must be a full length hex color code! Example: #12C4e6"

\* What new MeshConfig(config) writes with console.error.
MeshConfigLogs(config) ==
    LET color == IF Supplied(config, "color") /\ config.color # << >>
                 THEN config.color ELSE White
    IN  IF ColorPattern(color) THEN << >> ELSE <<InvalidColorCode>>

\* The Vec3d that MeshConfig stores as initialRotation.
InitialRotationVector(config) ==
    IF Supplied(config, "initialRotation") THEN config.initialRotation ELSE V(0, 0, 0)

(***************************************************************************)
(* Mesh                                                                    *)
(***************************************************************************)
\* The loop of the Mesh constructor and of Mesh.reset: a new Triangle of
\* three new Vec3d for every triangle of the list.
CopyTriangles(triangles) ==
    [i \in 1..Len(triangles) |->
        Triangle(Vec3d(triangles[i].A.x, triangles[i].A.y, triangles[i].A.z),
                 Vec3d(triangles[i].B.x, triangles[i].B.y, triangles[i].B.z),
                 Vec3d(triangles[i].C.x, triangles[i].C.y, triangles[i].C.z))]

\* new Mesh(id, triangles, config): config is the address of the MeshConfig
\* object, currentRotation the address config.initialRotation holds.
Mesh(id, triangles, configAddr, config) ==
    [id |-> id, initialTriangles |-> triangles, config |-> configAddr,
     currentRotation |-> config.initialRotation,
     processedTriangles |-> CopyTriangles(triangles)]

\* Mesh.reset with a fault: the working triangles are kept, not rebuilt.
MeshResetKeepsWorking(mesh) == [mesh EXCEPT !.processedTriangles = mesh.processedTriangles]

\* Mesh.reset
MeshReset(mesh) == [mesh EXCEPT !.processedTriangles = CopyTriangles(mesh.initialTriangles)]

\* Mesh.rotate, the body of the loop over rotationAxisList for one axis.
PossibleAxes == { <<"x">>, <<"y">>, <<"z">>, <<"-", "x">>, <<"-", "y">>, <<"-", "z">> }

\* The axis step with a fault: wraps only past 360 and -360, not at them.
RotateAxisStrict(rotation, axis, rotationSpeed) ==
    IF axis \in PossibleAxes /\ axis[1] = "-"
    THEN LET v == Sub(rotation[axis[2]], rotationSpeed)
         IN  [rotation EXCEPT ![axis[2]] = IF Lt(v, Num(-360)) THEN Num(0) ELSE v]
    ELSE IF axis \in PossibleAxes
    THEN LET v == Add(rotation[axis[1]], rotationSpeed)
         IN  [rotation EXCEPT ![axis[1]] = IF Lt(Num(360), v) THEN Num(0) ELSE v]
    ELSE rotation

RotateAxis(rotation, axis, rotationSpeed) ==
    IF axis \in PossibleAxes /\ axis[1] = "-"
    THEN LET v == Sub(rotation[axis[2]], rotationSpeed)
         IN  [rotation EXCEPT ![axis[2]] = IF Leq(v, Num(-360)) THEN Num(0) ELSE v]
    ELSE IF axis \in PossibleAxes
    THEN LET v == Add(rotation[axis[1]], rotationSpeed)
         IN  [rotation EXCEPT ![axis[1]] = IF Geq(v, Num(360)) THEN Num(0) ELSE v]
    ELSE rotation

RECURSIVE RotateAxes(_, _, _)
RotateAxes(rotation, axisList, rotationSpeed) ==
    IF axisList = << >> THEN rotation
    ELSE RotateAxes(RotateAxis(rotation, Head(axisList), rotationSpeed),
                    Tail(axisList), rotationSpeed)

\* Mesh.rotate, the new value of currentRotation.
MeshRotation(config, rotation) ==
    IF config.rotationEnabled
    THEN RotateAxes(rotation, config.rotationAxisList, config.rotationSpeed)
    ELSE rotation

\* The loop over processedTriangles with a fault: a mesh whose rotation is
\* disabled is moved, not rotated.
MeshRotateTrianglesIfEnabled(mesh, config, rotation) ==
    [mesh EXCEPT !.processedTriangles =
        [i \in 1..Len(mesh.processedTriangles) |->
            IF config.rotationEnabled
            THEN setLocation(TriangleRotate(mesh.processedTriangles[i], rotation), config.position)
            ELSE setLocation(mesh.processedTriangles[i], config.position)]]

\* The loop over processedTriangles with a fault: the working triangles are
\* the source triangles themselves (a shallow copy), so the source moves too.
MeshRotateTrianglesShared(mesh, config, rotation) ==
    [mesh EXCEPT !.processedTriangles =
                    [i \in 1..Len(mesh.processedTriangles) |->
                        setLocation(TriangleRotate(mesh.processedTriangles[i], rotation),
                                    config.position)],
                 !.initialTriangles =
                    [i \in 1..Len(mesh.processedTriangles) |->
                        setLocation(TriangleRotate(mesh.processedTriangles[i], rotation),
                                    config.position)]]

\* Mesh.rotate, the loop over processedTriangles.
MeshRotateTriangles(mesh, config, rotation) ==
    [mesh EXCEPT !.processedTriangles =
        [i \in 1..Len(mesh.processedTriangles) |->
            setLocation(TriangleRotate(mesh.processedTriangles[i], rotation), config.position)]]

\* Mesh.project, the comparison function handed to Array.prototype.sort.
compareFn(a, b) == IF Lt(a.center.z, b.center.z) THEN 1 ELSE -1

\* Array.prototype.sort with compareFn.  compareFn answers -1 both ways for
\* two triangles of equal center.z, so it is not a consistent comparison and
\* the order of such triangles is left to the engine: the outcomes are the
\* permutations that put no pair in the order compareFn consistently rejects.
Permutations(n) == { p \in [1..n -> 1..n] : \A i, j \in 1..n : p[i] = p[j] => i = j }

SortOutcomes(array) ==
    { [i \in 1..Len(array) |-> array[p[i]]] : p \in
        { q \in Permutations(Len(array)) :
            \A i, j \in 1..Len(array) :
                i < j => ~(compareFn(array[q[j]], array[q[i]]) < 0
                           /\ compareFn(array[q[i]], array[q[j]]) > 0) } }

\* Mesh.project, the loop over the sorted triangles.
IsVisible(renderer, triangle) == Lt(getDifference(renderer.camera, triangle), Num(0))

MeshProjectTriangles(mesh, config, renderer, sorted) ==
    [mesh EXCEPT !.processedTriangles =
        [i \in 1..Len(sorted) |->
            IF config.culling /\ ~IsVisible(renderer, sorted[i])
            THEN sorted[i]
            ELSE TriangleProject(sorted[i], renderer)]]

(***************************************************************************)
(* Drawing.  The surface is the sequence of the calls made on the canvas   *)
(* context that put something on it; each carries the style it is drawn    *)
(* with, and the mesh and the index in processedTriangles it is drawn for  *)
(* (0 for the world origin).                                               *)
(***************************************************************************)
One == Num(1)

Point(v) == <<v.x, v.y>>

FillRect(mesh, tri, x, y, w, h, style) ==
    [op |-> "fillRect", mesh |-> mesh, tri |-> tri, path |-> << <<x, y>> >>,
     size |-> <<w, h>>, style |-> style]

PathOp(op, mesh, tri, path, style) ==
    [op |-> op, mesh |-> mesh, tri |-> tri, path |-> path, size |-> << >>, style |-> style]

\* Mesh.drawVertex
drawVertex(m, i, triangle, color) ==
    << FillRect(m, i, triangle.A.x, triangle.A.y, One, One, color),
       FillRect(m, i, triangle.B.x, triangle.B.y, One, One, color),
       FillRect(m, i, triangle.C.x, triangle.C.y, One, One, color) >>

\* Mesh.drawCrosses
drawCrosses(m, i, triangle, color) ==
    << FillRect(m, i, triangle.A.x, Sub(triangle.A.y, Num(5)), One, Num(11), color),
       FillRect(m, i, triangle.B.x, Sub(triangle.B.y, Num(5)), One, Num(11), color),
       FillRect(m, i, triangle.C.x, Sub(triangle.C.y, Num(5)), One, Num(11), color),
       FillRect(m, i, Sub(triangle.A.x, Num(5)), triangle.A.y, Num(11), One, color),
       FillRect(m, i, Sub(triangle.B.x, Num(5)), triangle.B.y, Num(11), One, color),
       FillRect(m, i, Sub(triangle.C.x, Num(5)), triangle.C.y, Num(11), One, color) >>

\* Mesh.drawWire
TrianglePath(triangle) == <<Point(triangle.A), Point(triangle.B), Point(triangle.C)>>

drawWire(m, i, triangle, color) == << PathOp("stroke", m, i, TrianglePath(triangle), color) >>

\* The padding with a fault: none.
TwoDigitsUnpadded(a) == toString16(a)

\* Mesh.drawShaded, the color it computes.
TwoDigits(a) == IF Len(toString16(a)) < 2 THEN <<"0">> \o toString16(a) ELSE toString16(a)

ShadedColor(config, triangle) ==
    LET lightIntensity == Div(Add(dot(config.lightSource, triangle.normal), Num(1)), Num(2))
        R == Floor(Mul(parseIntHex(slice(config.color, 1, 3)), lightIntensity))
        G == Floor(Mul(parseIntHex(slice(config.color, 3, 5)), lightIntensity))
        B == Floor(Mul(parseIntHex(slice(config.color, 5, 7)), lightIntensity))
    IN  <<"#">> \o TwoDigits(R) \o TwoDigits(G) \o TwoDigits(B)

\* Mesh.drawShaded, the calls on the context.
drawShaded(m, i, triangle) ==
    << PathOp("stroke", m, i, TrianglePath(triangle), triangle.color),
       PathOp("fill", m, i, TrianglePath(triangle), triangle.color) >>

\* Mesh.draw: the triangles (drawShaded writes their color) ...
MeshDrawTriangles(mesh, config) ==
    [mesh EXCEPT !.processedTriangles =
        [i \in 1..Len(mesh.processedTriangles) |->
            IF config.draw = SHADED
            THEN [mesh.processedTriangles[i] EXCEPT
                     !.color = ShadedColor(config, mesh.processedTriangles[i])]
            ELSE mesh.processedTriangles[i]]]

\* ... and the calls on the context, for the triangles from index i on.
RECURSIVE MeshDrawOps(_, _, _, _)
MeshDrawOps(m, triangles, config, i) ==
    IF i > Len(triangles) THEN << >>
    ELSE (CASE config.draw = VERTEX  -> drawVertex(m, i, triangles[i], config.color)
            [] config.draw = CROSSES -> drawCrosses(m, i, triangles[i], config.color)
            [] config.draw = WIRE    -> drawWire(m, i, triangles[i], config.color)
            [] config.draw = SHADED  -> drawShaded(m, i, triangles[i])
            [] OTHER                 -> << >>)
         \o MeshDrawOps(m, triangles, config, i + 1)

\* Renderer.drawPoint
drawPoint(renderer, point) ==
    LET cross == << Vec3d(Add(point.x, Rat(1, 2)), point.y, point.z),
                    Vec3d(point.x, Add(point.y, Rat(1, 2)), point.z),
                    Vec3d(point.x, point.y, Add(point.z, Rat(1, 2))) >>
        p     == Vec3dProject(point, renderer)
        style == << <<"#", "f", "f", "0", "0", "0", "0">>,
                    <<"#", "0", "0", "f", "f", "0", "0">>,
                    <<"#", "0", "0", "0", "0", "f", "f">> >>
    IN  [i \in 1..3 |->
            PathOp("stroke", 0, 0, <<Point(p), Point(Vec3dProject(cross[i], renderer))>>, style[i])]

(***************************************************************************)
(* useFile: the text of an .obj file to a list of triangles.  A text is    *)
(* the sequence of its lines; with the flags g and m a pattern anchored by *)
(* ^ and $ matches whole lines, and match() returns them in file order.    *)
(***************************************************************************)
\* \d
IsDigit(ch) == \E i \in 1..10 : HexDigits[i] = ch

\* The index after the digits of s that start at index i.
RECURSIVE DigitsEnd(_, _)
DigitsEnd(s, i) == IF i <= Len(s) /\ IsDigit(s[i]) THEN DigitsEnd(s, i + 1) ELSE i

\* ( -?\d+(\.\d+)?) at index i of s: the index after the match, 0 for no match.
FieldEnd(s, i) ==
    IF i > Len(s) \/ s[i] # " " THEN 0
    ELSE LET j == IF i + 1 <= Len(s) /\ s[i + 1] = "-" THEN i + 2 ELSE i + 1
             k == DigitsEnd(s, j)
         IN  IF k = j THEN 0
             ELSE IF k <= Len(s) /\ s[k] = "." /\ DigitsEnd(s, k + 1) > k + 1
                  THEN DigitsEnd(s, k + 1)
                  ELSE k

\* /^v( -?\d+(\.\d+)?){3}$/ and /^f( -?\d+(\.\d+)?){3}$/ on one line
LinePattern(letter, line) ==
    /\ line # << >>
    /\ line[1] = letter
    /\ LET a == FieldEnd(line, 2)
       IN  /\ a # 0
           /\ LET b == FieldEnd(line, a)
              IN  /\ b # 0
                  /\ FieldEnd(line, b) = Len(line) + 1

\* file.match(pattern): the matching lines; << >> stands for null.
match(file, letter) == SelectSeq(file, LAMBDA line : LinePattern(letter, line))

\* line.split(" ")
RECURSIVE SplitFrom(_, _, _)
SplitFrom(s, i, word) ==
    IF i > Len(s) THEN <<word>>
    ELSE IF s[i] = " " THEN <<word>> \o SplitFrom(s, i + 1, << >>)
    ELSE SplitFrom(s, i + 1, Append(word, s[i]))

split(s) == SplitFrom(s, 1, << >>)

\* Number(word) for a word of the form -?\d+(\.\d+)?
RECURSIVE Decimal(_, _)
Decimal(digits, acc) ==
    IF digits = << >> THEN acc ELSE Decimal(Tail(digits), 10 * acc + HexValue(Head(digits)))

RECURSIVE Pow10(_)
Pow10(k) == IF k = 0 THEN 1 ELSE 10 * Pow10(k - 1)

Number(word) ==
    LET body  == IF word[1] = "-" THEN Tail(word) ELSE word
        p     == DigitsEnd(body, 1)
        whole == Decimal(SubSeq(body, 1, p - 1), 0)
        frac  == SubSeq(body, p + 1, Len(body))
        value == Add(Num(whole), Rat(Decimal(frac, 0), Pow10(Len(frac))))
    IN  IF word[1] = "-" THEN Neg(value) ELSE value

\* array[index] for a number index: << >> stands for undefined, <<v>> for
\* the element v.
ArrayGet(array, index) ==
    IF index.d = 1 /\ index.n >= 0 /\ index.n < Len(array)
    THEN <<array[index.n + 1]>>
    ELSE << >>

\* The lookup with a fault: the index taken as 0-based already; an index out of
\* range clamped to the nearest element.
VertexAtSameIndex(vertices, index) == ArrayGet(vertices, index)

VertexAtClamped(vertices, index) ==
    IF Lt(Sub(index, Num(1)), Num(0)) THEN <<vertices[1]>>
    ELSE IF Geq(Sub(index, Num(1)), Num(Len(vertices))) THEN <<vertices[Len(vertices)]>>
    ELSE ArrayGet(vertices, Sub(index, Num(1)))

\* vertices[triangle.A - 1]
VertexAt(vertices, index) == ArrayGet(vertices, Sub(index, Num(1)))

\* What a call ends with: a returned list of triangles or a thrown error.
Returned(triangles) == [status |-> "returned", value |-> triangles, error |-> ""]

Threw(error) == [status |-> "threw", value |-> << >>, error |-> error]

NoFaces == "The provided .obj file either has no faces, has faces constisting of more than 3 vertices or has faces that contain more information than just vertices."

NoVertices == "The provided .obj file has no vertices."

\* new Triangle(undefined, ...) throws in recalculateNormals, which reads
\* the fields of A, B and C.
TypeError == "TypeError: Cannot read properties of undefined"

\* useFile, "Saving vertices"
Vertices(vertex_matches) ==
    [i \in 1..Len(vertex_matches) |->
        Vec3d(Number(split(vertex_matches[i])[2]),
              Number(split(vertex_matches[i])[3]),
              Number(split(vertex_matches[i])[4]))]

\* useFile, "Grouping vertex indices by faces"
Faces(triangle_matches) ==
    [i \in 1..Len(triangle_matches) |->
        [A |-> Number(split(triangle_matches[i])[2]),
         B |-> Number(split(triangle_matches[i])[3]),
         C |-> Number(split(triangle_matches[i])[4])]]

\* useFile, "Selecting the correct vertices for the output triangle"
OutputTriangles(vertices, triangles) ==
    IF \E i \in 1..Len(triangles) :
          \/ VertexAt(vertices, triangles[i].A) = << >>
          \/ VertexAt(vertices, triangles[i].B) = << >>
          \/ VertexAt(vertices, triangles[i].C) = << >>
    THEN Threw(TypeError)
    ELSE Returned([i \in 1..Len(triangles) |->
                      Triangle(VertexAt(vertices, triangles[i].A)[1],
                               VertexAt(vertices, triangles[i].B)[1],
                               VertexAt(vertices, triangles[i].C)[1])])

\* The two checks with a fault: the vertices are checked first.
ParseVerticesFirst(text) ==
    IF match(text, "v") = << >> THEN Threw(NoVertices)
    ELSE IF match(text, "f") = << >> THEN Threw(NoFaces)
    ELSE OutputTriangles(Vertices(match(text, "v")), Faces(match(text, "f")))

\* useFile, the branch file !== undefined
Parse(text) ==
    IF match(text, "f") = << >> THEN Threw(NoFaces)
    ELSE IF match(text, "v") = << >> THEN Threw(NoVertices)
    ELSE OutputTriangles(Vertices(match(text, "v")), Faces(match(text, "f")))

\* useFile with a fault: a triangle is returned while the state is undefined.
useFileEarly(file) ==
    IF file # << >> THEN Parse(file[1])
    ELSE Returned(<<Triangle(V(0, 0, 0), V(1, 0, 0), V(0, 1, 0))>>)

\* useFile(path) for a path that ends in .obj: file is << >> while the state
\* is undefined and <<text>> once setFile(text) has run.
useFile(file) == IF file # << >> THEN Parse(file[1]) ELSE Returned(<< >>)

\* The longest text, in lines.
MaxLines == 4

LinePool ==
    << <<"v", " ", "0", " ", "0", " ", "0">>,
       <<"v", " ", "1", " ", "0", " ", "0">>,
       <<"v", " ", "0", " ", "1", " ", "0">>,
       <<"v", " ", "-", "1", ".", "5", " ", "0", "2", " ", "0", ".", "0">>,
       <<"f", " ", "1", " ", "2", " ", "3">>,
       <<"f", " ", "4", " ", "2", " ", "1">>,
       <<"f", " ", "1", " ", "2", " ", "9", "9">>,
       <<"f", " ", "1", " ", "-", "1", " ", "0">>,
       <<"f", " ", "1", " ", "2", " ", "3", " ", "4">>,
       <<"v", "n", " ", "0", " ", "0", " ", "1">>,
       <<"f", " ", "1", " ", "1", " ", "1">>,
       <<"v", " ", "0", " ", "0", " ", "0", " ", "1">> >>

Texts == { [i \in 1..Len(t) |-> LinePool[t[i]]] :
             t \in UNION { [1..n -> 1..Len(LinePool)] : n \in 0..MaxLines } }

(***************************************************************************)
(* The inputs: hand-written triangle lists, mesh options, cameras.         *)
(***************************************************************************)
\* The longest mesh list handed to the Engine component.
MaxMeshes == 2

\* Normal (0, 0, -1): faces a camera on the negative z axis.
Front(x, z) == Triangle(V(x, 0, z), V(x, 3, z), V(x + 3, 0, z))

\* Normal (0, 0, 1): faces away from it.
Back(x, z) == Triangle(V(x, 0, z), V(x + 3, 0, z), V(x, 3, z))

\* Normal (1, 0, 0).
Side(x, z) == Triangle(V(x, 0, z), V(x, 3, z), V(x, 0, z + 3))

\* Three equal corners: a zero-area triangle, its normal is NaN.
Degenerate == Triangle(V(3, 3, 3), V(3, 3, 3), V(3, 3, 3))

MeshPool ==
    << \* the mesh of App.tsx, on right angles
       [triangles |-> <<Front(0, 0), Back(0, 3), Front(3, 3)>>,
        config |-> [position |-> V(0, 0, 0), initialRotation |-> V(0, 0, 180),
                    rotationEnabled |-> TRUE, culling |-> TRUE, rotationSpeed |-> Num(90),
                    rotationAxisList |-> << <<"y">> >>,
                    color |-> <<"#", "e", "0", "e", "0", "e", "0">>,
                    draw |-> SHADED, lightSource |-> V(0, 0, -1)]],
       \* new MeshConfig({}): every default
       [triangles |-> <<Back(0, 0), Side(0, 0)>>,
        config |-> [culling |-> FALSE]],
       \* one step past the wrap
       [triangles |-> <<Front(0, 3), Back(3, 3), Side(0, 6)>>,
        config |-> [rotationEnabled |-> TRUE, rotationSpeed |-> Num(370),
                    rotationAxisList |-> << <<"y">> >>,
                    color |-> <<"#", "F", "F", "0", "0", "0", "0">>,
                    draw |-> SHADED, lightSource |-> V(0, 0, -30)]],
       [triangles |-> <<Side(0, 0), Front(0, 0), Degenerate>>,
        config |-> [position |-> V(0, 0, 3), initialRotation |-> V(0, 90, 0),
                    rotationEnabled |-> TRUE, culling |-> TRUE, rotationSpeed |-> Num(90),
                    rotationAxisList |-> << <<"-", "x">>, <<"z">>, <<"w">> >>,
                    color |-> <<"#", "1", "0", "C", "4", "e", "6">>,
                    draw |-> VERTEX]],
       [triangles |-> <<Back(0, 3), Front(3, 3)>>,
        config |-> [initialRotation |-> V(90, 0, 0), rotationEnabled |-> FALSE,
                    culling |-> FALSE,
                    color |-> <<"r", "e", "d">>, draw |-> CROSSES]],
       [triangles |-> << >>,
        config |-> [rotationEnabled |-> TRUE, rotationSpeed |-> Num(370),
                    rotationAxisList |-> << <<"y">>, <<"-", "y">> >>,
                    color |-> <<"F", "F", "0", "0", "0", "0">>,
                    draw |-> SHADED, lightSource |-> V(0, 3, 0)]] >>

CameraPool ==
    << Camera([position |-> V(0, 0, -5), rotation |-> V(0, 0, 0)]),
       Camera([position |-> V(0, -3, -6), rotation |-> V(0, 0, 90), fieldOfView |-> Num(90),
               nearPlane |-> Num(1), farPlane |-> Num(100)]) >>

\* The size the canvas element has on the page.
CanvasPool == << [height |-> Num(100), width |-> Num(200)] >>

\* The mesh lists: sequences of indices into MeshPool.
Scenes == UNION { [1..n -> 1..Len(MeshPool)] : n \in 0..MaxMeshes }

(***************************************************************************)
(* The state.                                                              *)
(***************************************************************************)
VARIABLES
    vec3d,            \* the heap of the Vec3d objects that are shared: address -> value
    configs,          \* the MeshConfig objects: address -> value
    meshes,           \* the list prop of Engine, Renderer.meshList
    camera,           \* the camera prop of Engine
    canvas,           \* the size of the canvas element
    showWorldOrigin,  \* the showWorldOrigin prop of Engine
    renderer,         \* the Renderer of the frame being drawn
    surface,          \* what the frame has drawn on the canvas so far
    pc,               \* where Renderer.render is: "idle" between frames
    meshIdx,          \* the index of the mesh the loop of Renderer.render is at
    data,             \* useFile: what fetch(path) resolves with, [ok, text]
    fetching,         \* useFile: "unsent", "pending", "resolved" or "rejected"
    file,             \* useFile: the state file, << >> while undefined, then <<text>>
    stale,            \* the component is due to render (first render, setFile)
    result,           \* what the last call of useFile ended with
    call,             \* a call of one operation on its own: [op, ...arguments]
    ret,              \* what that call ended with, status "none" before it
    component,        \* the component tree: "unrendered", "mounted" or "unmounted"
    rendered,         \* << >>, or <<props>> of a render whose effects have not run yet
    requestId,        \* useMainLoop: requestId.current
    pending,          \* the animation-frame requests that are neither run nor cancelled
    nextId            \* the id the next requestAnimationFrame returns

hookVars == <<data, fetching, file, stale, result>>

unitVars == <<call, ret>>

loopVars == <<component, rendered, requestId, pending, nextId>>

otherVars == <<hookVars, unitVars, loopVars>>

frameVars == <<vec3d, configs, meshes, camera, canvas, showWorldOrigin, renderer, surface, pc, meshIdx>>

vars == <<frameVars, hookVars, unitVars, loopVars>>

\* The loop body with a fault: draw before project.
RenderNextDrawFirst(stage, idx, n) ==
    CASE stage = "rotate"  -> <<"draw", idx>>
      [] stage = "draw"    -> <<"project", idx>>
      [] stage = "project" -> <<"reset", idx>>
      [] stage = "reset"   -> IF idx < n THEN <<"rotate", idx + 1>> ELSE <<"origin", idx>>

\* Renderer.render: the statement after each statement of the loop body, for
\* the mesh at index idx of n meshes.
RenderNext(stage, idx, n) ==
    CASE stage = "rotate"  -> <<"project", idx>>
      [] stage = "project" -> <<"draw", idx>>
      [] stage = "draw"    -> <<"reset", idx>>
      [] stage = "reset"   -> IF idx < n THEN <<"rotate", idx + 1>> ELSE <<"origin", idx>>

Goto(next) == pc' = next[1] /\ meshIdx' = next[2]

CurrentMesh == meshes[meshIdx]

CurrentConfig == configs[CurrentMesh.config]

\* App: the meshes of the scene, the first config object shared by all of
\* them when shared.
ConfigAddr(i, shared) == IF shared THEN 1 ELSE i

\* The hook is not used: the triangles are hand-written.
HookUnused ==
    /\ data = [ok |-> FALSE, text |-> << >>]
    /\ fetching = "unsent"
    /\ file = << >>
    /\ stale = FALSE
    /\ result = Returned(<< >>)

\* No operation is called on its own.
UnitUnused ==
    /\ call = [op |-> "none"]
    /\ ret = [status |-> "none"]

\* No component is mounted and no animation frame is requested: the steps of
\* the frame are taken as they come.
LoopUnused ==
    /\ component = "unrendered"
    /\ rendered = << >>
    /\ requestId = 0
    /\ pending = {}
    /\ nextId = 1

Init ==
    \E scene \in Scenes, shared \in BOOLEAN, cam \in 1..Len(CameraPool),
       cv \in 1..Len(CanvasPool), origin \in BOOLEAN :
        /\ vec3d = [a \in 1..Len(scene) |-> InitialRotationVector(MeshPool[scene[a]].config)]
        /\ configs = [a \in 1..Len(scene) |-> MeshConfig(MeshPool[scene[a]].config, a)]
        /\ meshes = [i \in 1..Len(scene) |->
                        Mesh(i, MeshPool[scene[i]].triangles, ConfigAddr(i, shared),
                             MeshConfig(MeshPool[scene[ConfigAddr(i, shared)]].config,
                                        ConfigAddr(i, shared)))]
        /\ camera = CameraPool[cam]
        /\ canvas = CanvasPool[cv]
        /\ showWorldOrigin = origin
        /\ renderer = Renderer(CanvasPool[cv].height, CanvasPool[cv].width, CameraPool[cam])
        /\ surface = << >>
        /\ pc = "idle"
        /\ meshIdx = 1
        /\ HookUnused
        /\ UnitUnused
        /\ LoopUnused

\* The loop callback of Engine, up to the call of Renderer.render: setting the
\* size of the canvas clears it.
Callback ==
    /\ pc = "idle"
    /\ surface' = << >>
    /\ renderer' = Renderer(canvas.height, canvas.width, camera)
    /\ Goto(IF meshes = << >> THEN <<"origin", 1>> ELSE <<"rotate", 1>>)
    /\ UNCHANGED <<vec3d, configs, meshes, camera, canvas, showWorldOrigin>>

\* The frames taken as they come.
Frame == Callback /\ UNCHANGED otherVars

\* mesh.rotate()
Rotate ==
    /\ pc = "rotate"
    /\ LET rotation == MeshRotation(CurrentConfig, vec3d[CurrentMesh.currentRotation])
       IN  /\ vec3d' = [vec3d EXCEPT ![CurrentMesh.currentRotation] = rotation]
           /\ meshes' = [meshes EXCEPT
                            ![meshIdx] = MeshRotateTriangles(CurrentMesh, CurrentConfig, rotation)]
    /\ Goto(RenderNext(pc, meshIdx, Len(meshes)))
    /\ UNCHANGED <<configs, camera, canvas, showWorldOrigin, renderer, surface>>
    /\ UNCHANGED otherVars

\* mesh.project(this)
Project ==
    /\ pc = "project"
    /\ \E sorted \in SortOutcomes(CurrentMesh.processedTriangles) :
        meshes' = [meshes EXCEPT
                      ![meshIdx] = MeshProjectTriangles(CurrentMesh, CurrentConfig, renderer, sorted)]
    /\ Goto(RenderNext(pc, meshIdx, Len(meshes)))
    /\ UNCHANGED <<vec3d, configs, camera, canvas, showWorldOrigin, renderer, surface>>
    /\ UNCHANGED otherVars

\* mesh.draw(context)
Draw ==
    /\ pc = "draw"
    /\ LET drawn == MeshDrawTriangles(CurrentMesh, CurrentConfig)
       IN  /\ meshes' = [meshes EXCEPT ![meshIdx] = drawn]
           /\ surface' = surface \o MeshDrawOps(meshIdx, drawn.processedTriangles, CurrentConfig, 1)
    /\ Goto(RenderNext(pc, meshIdx, Len(meshes)))
    /\ UNCHANGED <<vec3d, configs, camera, canvas, showWorldOrigin, renderer>>
    /\ UNCHANGED otherVars

\* mesh.reset()
Reset ==
    /\ pc = "reset"
    /\ meshes' = [meshes EXCEPT ![meshIdx] = MeshReset(CurrentMesh)]
    /\ Goto(RenderNext(pc, meshIdx, Len(meshes)))
    /\ UNCHANGED <<vec3d, configs, camera, canvas, showWorldOrigin, renderer, surface>>
    /\ UNCHANGED otherVars

\* Renderer.render after the loop: the world origin, and the return.
Origin ==
    /\ pc = "origin"
    /\ surface' = surface \o (IF showWorldOrigin THEN drawPoint(renderer, V(0, 0, 0)) ELSE << >>)
    /\ pc' = "idle"
    /\ UNCHANGED <<vec3d, configs, meshes, camera, canvas, showWorldOrigin, renderer, meshIdx>>

Return == Origin /\ UNCHANGED otherVars

Next == Frame \/ Rotate \/ Project \/ Draw \/ Reset \/ Return

Spec == Init /\ [][Next]_vars

(***************************************************************************)
(* The hook alone: a component that calls useFile, and the fetch.          *)
(***************************************************************************)
InitParse ==
    /\ data \in { [ok |-> TRUE, text |-> t] : t \in Texts } \cup { [ok |-> FALSE, text |-> << >>] }
    /\ fetching = "unsent"
    /\ file = << >>
    /\ stale = TRUE
    /\ result = Returned(<< >>)
    /\ vec3d = << >>
    /\ configs = << >>
    /\ meshes = << >>
    /\ camera = CameraPool[1]
    /\ canvas = CanvasPool[1]
    /\ showWorldOrigin = FALSE
    /\ renderer = Renderer(CanvasPool[1].height, CanvasPool[1].width, CameraPool[1])
    /\ surface = << >>
    /\ pc = "idle"
    /\ meshIdx = 1
    /\ UnitUnused
    /\ LoopUnused

\* A render of the component: the call of useFile; after the first one the
\* effect sends the fetch.  A render that throws is the last one.
UseFile ==
    /\ stale
    /\ result.status = "returned"
    /\ result' = useFile(file)
    /\ stale' = FALSE
    /\ fetching' = IF fetching = "unsent" THEN "pending" ELSE fetching
    /\ UNCHANGED <<data, file, frameVars, unitVars, loopVars>>

\* The fetch resolves: setFile(await data.text()), or throw data.
FetchResolves ==
    /\ fetching = "pending"
    /\ IF data.ok
       THEN file' = <<data.text>> /\ stale' = TRUE /\ fetching' = "resolved"
       ELSE file' = file /\ stale' = stale /\ fetching' = "rejected"
    /\ UNCHANGED <<data, result, frameVars, unitVars, loopVars>>

NextParse == UseFile \/ FetchResolves

SpecParse == InitParse /\ [][NextParse]_vars

(***************************************************************************)
(* One operation called on its own, on inputs drawn from small sets.       *)
(***************************************************************************)
\* The longest color string: '#' and six digits.
MaxColorLen == 7

\* The characters of the color strings: the '#', a digit, a lower-case hex
\* letter, an upper-case letter that is no hex digit.
ColorChars == {"#", "0", "e", "G"}

Colors == UNION { [1..n -> ColorChars] : n \in 0..MaxColorLen }

\* The option objects handed to new MeshConfig: no color, or a color string.
ColorConfigs == { [culling |-> FALSE] } \cup { [color |-> c] : c \in Colors }

UnitVectors == { V(x, y, z) : x, y, z \in {-1, 0, 2} }

\* The matrices handed to multiplyByMatrix: the identity, the projection
\* matrix of the first camera, a translation, a matrix whose column 1 feeds
\* on x, a matrix that gives w = 0.
MatrixPool ==
    << << <<Num(1), Num(0), Num(0), Num(0)>>,
          <<Num(0), Num(1), Num(0), Num(0)>>,
          <<Num(0), Num(0), Num(1), Num(0)>>,
          <<Num(0), Num(0), Num(0), Num(1)>> >>,
       getProjectionMatrix(CameraPool[1], Rat(1, 2)),
       << <<Num(1), Num(0), Num(0), Num(0)>>,
          <<Num(0), Num(1), Num(0), Num(0)>>,
          <<Num(0), Num(0), Num(1), Num(0)>>,
          <<Num(1), Num(2), Num(3), Num(2)>> >>,
       << <<Num(2), Num(1), Num(0), Num(0)>>,
          <<Num(0), Num(1), Num(1), Num(0)>>,
          <<Num(0), Num(0), Num(1), Num(0)>>,
          <<Num(0), Num(0), Num(0), Num(1)>> >>,
       << <<Num(1), Num(0), Num(0), Num(0)>>,
          <<Num(0), Num(1), Num(0), Num(0)>>,
          <<Num(0), Num(0), Num(1), Num(0)>>,
          <<Num(0), Num(0), Num(0), Num(0)>> >> >>

\* The colors of the meshes drawn SHADED: the color strings, and some with
\* upper-case hex letters.
ShadedColors ==
    Colors \cup { <<"#", "E", "0", "e", "0", "E", "0">>,
                  <<"E", "0", "e", "0", "E", "0">>,
                  <<"#", "F", "F", "0", "0", "0", "0">>,
                  <<"1", "2", "C", "4", "e", "6">> }

Calls ==
    { [op |-> "MeshConfig", config |-> c] : c \in ColorConfigs }
        \cup { [op |-> "drawShaded", color |-> c, lightSource |-> V(0, 0, -1),
                triangle |-> Front(0, 0)] : c \in ShadedColors }
        \cup { [op |-> "multiplyByMatrix", this |-> v, matrix |-> MatrixPool[m]] :
                   v \in UnitVectors, m \in 1..Len(MatrixPool) }

InitUnit ==
    /\ call \in Calls
    /\ ret = [status |-> "none"]
    /\ vec3d = << >>
    /\ configs = << >>
    /\ meshes = << >>
    /\ camera = CameraPool[1]
    /\ canvas = CanvasPool[1]
    /\ showWorldOrigin = FALSE
    /\ renderer = Renderer(CanvasPool[1].height, CanvasPool[1].width, CameraPool[1])
    /\ surface = << >>
    /\ pc = "idle"
    /\ meshIdx = 1
    /\ HookUnused
    /\ LoopUnused

\* new MeshConfig(config)
CallMeshConfig ==
    /\ call.op = "MeshConfig"
    /\ ret.status = "none"
    /\ ret' = [status |-> "returned", value |-> MeshConfig(call.config, 1),
               logged |-> MeshConfigLogs(call.config)]
    /\ UNCHANGED <<call, frameVars, hookVars, loopVars>>

\* this.multiplyByMatrix(matrix)
CallMultiplyByMatrix ==
    /\ call.op = "multiplyByMatrix"
    /\ ret.status = "none"
    /\ ret' = [status |-> "returned", value |-> multiplyByMatrix(call.this, call.matrix)]
    /\ UNCHANGED <<call, frameVars, hookVars, loopVars>>

\* drawShaded(context, triangle) of a mesh whose config is
\* new MeshConfig({color, lightSource, draw: drawMethod.SHADED}): the color it
\* writes to the triangle.
CallDrawShaded ==
    /\ call.op = "drawShaded"
    /\ ret.status = "none"
    /\ ret' = [status |-> "returned",
               value |-> ShadedColor(MeshConfig([color |-> call.color,
                                                 lightSource |-> call.lightSource,
                                                 draw |-> SHADED], 1),
                                     call.triangle)]
    /\ UNCHANGED <<call, frameVars, hookVars, loopVars>>

NextUnit == CallMeshConfig \/ CallMultiplyByMatrix \/ CallDrawShaded

SpecUnit == InitUnit /\ [][NextUnit]_vars

(***************************************************************************)
(* The page: App renders, its effects run, the fetch resolves, and the     *)
(* browser runs the animation-frame callbacks.  A frame runs to its end    *)
(* before a render or an effect can run.                                   *)
(***************************************************************************)
\* The most animation frames requested in a run.
MaxRequests == 5

\* What the fetch of objects/cube.obj resolves with: a text of one triangle,
\* a text without a face line, a text of one zero-area triangle, a response
\* that is not ok.
AppData ==
    { [ok |-> TRUE, text |-> <<LinePool[1], LinePool[2], LinePool[3], LinePool[5]>>],
      [ok |-> TRUE, text |-> <<LinePool[9]>>],
      [ok |-> TRUE, text |-> <<LinePool[1], LinePool[11]>>],
      [ok |-> FALSE, text |-> << >>] }

\* App: new Mesh(Date.now(), useFile("objects/cube.obj"), new MeshConfig({...}))
\* and list={[mesh]}; now stands for Date.now().
AppProps(triangles, now) ==
    [vec3d   |-> << InitialRotationVector(MeshPool[1].config) >>,
     configs |-> << MeshConfig(MeshPool[1].config, 1) >>,
     meshes  |-> << Mesh(now, triangles, 1, MeshConfig(MeshPool[1].config, 1)) >>]

InitApp ==
    /\ data \in AppData
    /\ fetching = "unsent"
    /\ file = << >>
    /\ stale = TRUE
    /\ result = Returned(<< >>)
    /\ vec3d = << >>
    /\ configs = << >>
    /\ meshes = << >>
    /\ camera = CameraPool[1]
    /\ canvas = CanvasPool[1]
    /\ showWorldOrigin = FALSE
    /\ renderer = Renderer(CanvasPool[1].height, CanvasPool[1].width, CameraPool[1])
    /\ surface = << >>
    /\ pc = "idle"
    /\ meshIdx = 1
    /\ UnitUnused
    /\ LoopUnused

\* A render of App.  useFile returns and the Mesh is constructed from what it
\* returned, or useFile throws and React unmounts the tree, which runs the
\* cleanup of the effect of useMainLoop.
AppRender ==
    /\ stale
    /\ component # "unmounted"
    /\ rendered = << >>
    /\ pc = "idle"
    /\ nextId <= MaxRequests
    /\ stale' = FALSE
    /\ result' = useFile(file)
    /\ IF useFile(file).status = "returned"
       THEN /\ rendered' = << AppProps(useFile(file).value, nextId) >>
            /\ UNCHANGED <<component, pending>>
       ELSE /\ rendered' = << >>
            /\ component' = "unmounted"
            /\ pending' = pending \ {requestId}
    /\ UNCHANGED <<data, fetching, file, frameVars, unitVars, requestId, nextId>>

\* The effects of the render run: the effect of useMainLoop (the cleanup of
\* the one before, then requestAnimationFrame(loop) for the loop of this
\* render, which draws the list of this render), and after the first render
\* the effect of useFile, which sends the fetch.
RunEffects ==
    /\ rendered # << >>
    /\ pc = "idle"
    /\ vec3d' = rendered[1].vec3d
    /\ configs' = rendered[1].configs
    /\ meshes' = rendered[1].meshes
    /\ rendered' = << >>
    /\ component' = "mounted"
    /\ pending' = (IF component = "mounted" THEN pending \ {requestId} ELSE pending)
                      \cup {nextId}
    /\ requestId' = nextId
    /\ nextId' = nextId + 1
    /\ fetching' = IF fetching = "unsent" THEN "pending" ELSE fetching
    /\ UNCHANGED <<camera, canvas, showWorldOrigin, renderer, surface, pc, meshIdx>>
    /\ UNCHANGED <<data, file, stale, result, unitVars>>

\* The browser runs a requested frame: loop() calls callback().
LoopCallback ==
    /\ nextId <= MaxRequests
    /\ \E id \in pending : pending' = pending \ {id}
    /\ Callback
    /\ UNCHANGED <<hookVars, unitVars, component, rendered, requestId, nextId>>

\* loop with a fault: the id of the new request is not stored.
LoopStoreDropped(current, id) == current

\* loop: requestId.current = requestAnimationFrame(loop)
LoopStore(current, id) == id

\* The end of callback(), and the request of the next frame.
LoopRequest ==
    /\ Origin
    /\ pending' = pending \cup {nextId}
    /\ requestId' = LoopStore(requestId, nextId)
    /\ nextId' = nextId + 1
    /\ UNCHANGED <<hookVars, unitVars, component, rendered>>

\* The tree is unmounted: the cleanup of the effect of useMainLoop runs.
Unmount ==
    /\ component = "mounted"
    /\ rendered = << >>
    /\ pc = "idle"
    /\ component' = "unmounted"
    /\ pending' = pending \ {requestId}
    /\ UNCHANGED <<frameVars, hookVars, unitVars, rendered, requestId, nextId>>

NextApp ==
    \/ AppRender \/ RunEffects \/ FetchResolves \/ Unmount
    \/ LoopCallback \/ Rotate \/ Project \/ Draw \/ Reset \/ LoopRequest

SpecApp == InitApp /\ [][NextApp]_vars

(***************************************************************************)
(* The claims about the frame pipeline, checked under Spec.                *)
(***************************************************************************)
Coordinates(triangles) ==
    [i \in 1..Len(triangles) |-> <<triangles[i].A, triangles[i].B, triangles[i].C>>]

\* The mesh at index i is between its rotate and its reset of this frame.
MidTick(i) == i = meshIdx /\ pc \in {"project", "draw", "reset"}

DrawnFor(m, i) == { k \in 1..Len(surface) : surface[k].mesh = m /\ surface[k].tri = i }

\* C1: after Mesh.reset() the working triangles have the coordinates of the
\* source triangles, same count, same order, whatever the frame did to them:
\* every mesh that is not between its rotate and its reset is in that state.
C1_ResetRestoresSource ==
    \A i \in 1..Len(meshes) :
        ~MidTick(i) =>
            Coordinates(meshes[i].processedTriangles) = Coordinates(meshes[i].initialTriangles)

\* A frame has ended in which a mesh with triangles was rotated by a rotation
\* other than zero, projected and drawn, and then reset.
C1_Witness ==
    /\ pc = "idle"
    /\ \E i \in 1..Len(meshes) :
        /\ meshes[i].initialTriangles # << >>
        /\ vec3d[meshes[i].currentRotation] # V(0, 0, 0)
        /\ ~configs[meshes[i].config].culling
        /\ \E k \in 1..Len(surface) : surface[k].mesh = i

\* C2: with culling enabled, a working triangle whose camera.getDifference is
\* >= 0 after the rotate stage is skipped by project and draw emits nothing
\* for it (project leaves the center and the normal of a triangle as rotate
\* set them, so getDifference still has that value after draw).
C2_CulledNotDrawn ==
    pc = "reset" /\ CurrentConfig.culling =>
        \A i \in 1..Len(CurrentMesh.processedTriangles) :
            Geq(getDifference(renderer.camera, CurrentMesh.processedTriangles[i]), Num(0))
                => DrawnFor(meshIdx, i) = {}

\* C3: what a tick does to currentRotation according to the claim: each
\* configured axis in turn adds (plain letter) or subtracts ('-' prefix)
\* rotationSpeed, and a value that reaches >= 360, or <= -360, becomes 0.
ClaimedAxis(rotation, axis, speed) ==
    CASE axis \in {<<"x">>, <<"y">>, <<"z">>} ->
            [rotation EXCEPT ![axis[1]] =
                IF Geq(Add(@, speed), Num(360)) THEN Num(0) ELSE Add(@, speed)]
      [] axis \in {<<"-", "x">>, <<"-", "y">>, <<"-", "z">>} ->
            [rotation EXCEPT ![axis[2]] =
                IF Leq(Sub(@, speed), Num(-360)) THEN Num(0) ELSE Sub(@, speed)]
      [] OTHER -> rotation

RECURSIVE ClaimedTick(_, _, _)
ClaimedTick(rotation, axes, speed) ==
    IF axes = << >> THEN rotation
    ELSE ClaimedTick(ClaimedAxis(rotation, Head(axes), speed), Tail(axes), speed)

\* C3: every rotate of a mesh with rotation enabled changes currentRotation
\* as ClaimedTick says; with axes ["y"], rotationSpeed 370 and rotation 0
\* before, currentRotation.y is 0 after.
C3_RotationStep ==
    [][pc = "rotate" /\ CurrentConfig.rotationEnabled =>
        LET old == vec3d[CurrentMesh.currentRotation]
            new == vec3d'[CurrentMesh.currentRotation]
        IN  /\ new = ClaimedTick(old, CurrentConfig.rotationAxisList, CurrentConfig.rotationSpeed)
            /\ (/\ CurrentConfig.rotationAxisList = << <<"y">> >>
                /\ CurrentConfig.rotationSpeed = Num(370)
                /\ old = V(0, 0, 0)) => new.y = Num(0)]_vars

\* A mesh with axes ["y"] and rotationSpeed 370 has just been rotated, and
\* its currentRotation.y is 0.
C3_Witness ==
    /\ pc = "project"
    /\ CurrentConfig.rotationEnabled
    /\ CurrentConfig.rotationAxisList = << <<"y">> >>
    /\ CurrentConfig.rotationSpeed = Num(370)
    /\ vec3d[CurrentMesh.currentRotation].y = Num(0)

\* C4: project leaves the working triangles in the stable sort of their
\* post-rotate order by descending center.z.  project changes neither the
\* center nor the normal of a triangle, which tell the triangles apart.
Keys(triangles) == [i \in 1..Len(triangles) |-> <<triangles[i].center, triangles[i].normal>>]

\* keys with key put after every element whose center.z is not smaller
RECURSIVE InsertByDepth(_, _)
InsertByDepth(keys, key) ==
    IF keys = << >> THEN <<key>>
    ELSE IF Lt(Head(keys)[1].z, key[1].z) THEN <<key>> \o keys
    ELSE <<Head(keys)>> \o InsertByDepth(Tail(keys), key)

RECURSIVE StableByDepth(_)
StableByDepth(keys) ==
    IF keys = << >> THEN << >>
    ELSE InsertByDepth(StableByDepth(SubSeq(keys, 1, Len(keys) - 1)), keys[Len(keys)])

\* C4: the working triangles after project are the stable sort by
\* descending center.z of the working triangles before it.
C4_StableDepthOrder ==
    [][pc = "project" =>
        Keys(meshes'[meshIdx].processedTriangles)
            = StableByDepth(Keys(meshes[meshIdx].processedTriangles))]_vars

\* C5: in one call of Renderer.render the stages of each mesh run once, in
\* the order rotate, project, draw, reset, mesh after mesh in list order;
\* the surface holds the primitives in mesh order (the world origin, mesh
\* 0, last); and the call returns only after the reset of the last mesh.
StageOrder ==
    /\ pc = "idle" /\ pc' # "idle" =>
          /\ meshIdx' = 1
          /\ pc' = IF meshes = << >> THEN "origin" ELSE "rotate"
    /\ pc = "rotate"  => pc' = "project" /\ meshIdx' = meshIdx
    /\ pc = "project" => pc' = "draw" /\ meshIdx' = meshIdx
    /\ pc = "draw"    => pc' = "reset" /\ meshIdx' = meshIdx
    /\ pc = "reset" =>
          IF meshIdx < Len(meshes)
          THEN pc' = "rotate" /\ meshIdx' = meshIdx + 1
          ELSE pc' = "origin"
    /\ pc' = "origin" /\ pc # "origin" => meshes = << >> \/ (pc = "reset" /\ meshIdx = Len(meshes))
    /\ pc' = "idle" => pc \in {"idle", "origin"}

\* Only the draw stage of a mesh puts primitives of that mesh on the surface.
StageEffects ==
    /\ pc \in {"rotate", "project", "reset"} => surface' = surface
    /\ pc = "draw" =>
          /\ SubSeq(surface', 1, Len(surface)) = surface
          /\ \A k \in Len(surface) + 1 .. Len(surface') : surface'[k].mesh = meshIdx

SurfaceInMeshOrder ==
    \A j, k \in 1..Len(surface) :
        j < k => \/ surface[k].mesh = 0
                 \/ (surface[j].mesh # 0 /\ surface[j].mesh <= surface[k].mesh)

\* C5: every step follows StageOrder and StageEffects, the surface is in
\* mesh order, and it holds primitives only of meshes whose turn has come.
C5_StagesPerMeshInOrder ==
    /\ [][StageOrder /\ StageEffects]_vars
    /\ [](SurfaceInMeshOrder)
    /\ [](\A k \in 1..Len(surface) : pc # "idle" /\ pc # "origin" => surface[k].mesh \in 1..meshIdx)

\* A frame of two meshes has returned with primitives of both on the surface.
C5_Witness ==
    /\ pc = "idle"
    /\ Len(meshes) = 2
    /\ \E j, k \in 1..Len(surface) : surface[j].mesh = 1 /\ surface[k].mesh = 2

\* C9: in SHADED mode with a color '#RRGGBB', a triangle whose unit normal
\* has dot product d with the unit light direction gets, as its color and as
\* the style of its stroke and fill, '#' and the two-digit lowercase hex of
\* floor(channel * (d + 1) / 2) for R, G, B; "#FF0000" gives "#ff0000" at
\* d = 1 and "#000000" at d = -1.
Channel(color, k) == 16 * HexValue(color[2 * k]) + HexValue(color[2 * k + 1])

Hex2(n) == <<HexDigits[(n \div 16) + 1], HexDigits[(n % 16) + 1]>>

\* floor(c * (d + 1) / 2) for the rational d = dn / dd
Scaled(c, d) == (c * (d.n + d.d)) \div (2 * d.d)

ClaimedShade(color, d) ==
    <<"#">> \o Hex2(Scaled(Channel(color, 1), d)) \o Hex2(Scaled(Channel(color, 2), d))
            \o Hex2(Scaled(Channel(color, 3), d))

HashColor(color) == Len(color) = 7 /\ color[1] = "#"

\* C9: after the draw of a SHADED mesh of color '#RRGGBB' every triangle has
\* the color ClaimedShade gives, and its stroke and fill have that style.
C9_ShadedColor ==
    pc = "reset" /\ CurrentConfig.draw = SHADED /\ HashColor(CurrentConfig.color) =>
        \A i \in 1..Len(CurrentMesh.processedTriangles) :
            LET t == CurrentMesh.processedTriangles[i]
                d == dot(CurrentConfig.lightSource, t.normal)
            IN  ~IsNaN(d) =>
                  /\ t.color = ClaimedShade(CurrentConfig.color, d)
                  /\ { surface[k].op : k \in DrawnFor(meshIdx, i) } = {"stroke", "fill"}
                  /\ \A k \in DrawnFor(meshIdx, i) : surface[k].style = t.color
                  /\ (CurrentConfig.color = <<"#", "F", "F", "0", "0", "0", "0">> /\ d = Num(1))
                        => t.color = <<"#", "f", "f", "0", "0", "0", "0">>
                  /\ (CurrentConfig.color = <<"#", "F", "F", "0", "0", "0", "0">> /\ d = Num(-1))
                        => t.color = <<"#", "0", "0", "0", "0", "0", "0">>

\* A mesh of color "#FF0000" has been drawn SHADED with one triangle at
\* d = 1, one at d = -1 and one in between.
C9_Witness ==
    /\ pc = "reset" /\ CurrentConfig.draw = SHADED
    /\ CurrentConfig.color = <<"#", "F", "F", "0", "0", "0", "0">>
    /\ \E i, j, k \in 1..Len(CurrentMesh.processedTriangles) :
        /\ dot(CurrentConfig.lightSource, CurrentMesh.processedTriangles[i].normal) = Num(1)
        /\ dot(CurrentConfig.lightSource, CurrentMesh.processedTriangles[j].normal) = Num(-1)
        /\ dot(CurrentConfig.lightSource, CurrentMesh.processedTriangles[k].normal) = Num(0)
        /\ CurrentMesh.processedTriangles[k].color = <<"#", "7", "f", "0", "0", "0", "0">>
        /\ DrawnFor(meshIdx, i) # {}

\* C10: no step of a tick changes a field of a MeshConfig; config.initialRotation
\* keeps the value it had at construction.
ConfigValue(a) == [configs[a] EXCEPT !.initialRotation = vec3d[configs[a].initialRotation]]

\* C10: no step changes the value of a MeshConfig, initialRotation included.
C10_ConfigImmutable ==
    [][\A a \in DOMAIN configs : ConfigValue(a)' = ConfigValue(a)]_vars

(***************************************************************************)
(* The claims about the parser, checked under SpecParse.  What the lines   *)
(* of LinePool say is written down by hand here, not parsed: lines 1-4 are *)
(* vertex lines, lines 5-8 and 11 face lines, lines 9, 10 and 12 neither   *)
(* (a face of four indices, a vertex normal, a vertex of four fields).     *)
(***************************************************************************)
PoolLine(line) == CHOOSE k \in 1..Len(LinePool) : LinePool[k] = line

IsVertexLine(line) == PoolLine(line) \in 1..4

IsFaceLine(line) == PoolLine(line) \in 5..8 \cup {11}

VertexMeant(line) ==
    << V(0, 0, 0), V(1, 0, 0), V(0, 1, 0), Vec3d(Rat(-3, 2), Num(2), Num(0)) >>[PoolLine(line)]

FaceMeant(line) ==
    << <<1, 2, 3>>, <<4, 2, 1>>, <<1, 2, 99>>, <<1, -1, 0>>,
       << >>, << >>, <<1, 1, 1>> >>[PoolLine(line) - 4]

VertexLines(text) == SelectSeq(text, IsVertexLine)

FaceLines(text) == SelectSeq(text, IsFaceLine)

\* The indices of every face line lie in 1..(number of vertex lines).
IndicesInRange(text) ==
    \A i \in 1..Len(FaceLines(text)) : \A k \in 1..3 :
        FaceMeant(FaceLines(text)[i])[k] \in 1..Len(VertexLines(text))

\* The corners the claim gives the triangles: for each face line, in file
\* order, the vertex lines its three 1-based indices select.
ClaimedCorners(text) ==
    [i \in 1..Len(FaceLines(text)) |->
        [k \in 1..3 |-> VertexMeant(VertexLines(text)[FaceMeant(FaceLines(text)[i])[k]])]]

\* The last call of useFile parsed the text that was fetched.
Parsed == file # << >> /\ ~stale

CubeCorner == <<LinePool[1], LinePool[2], LinePool[3], LinePool[5]>>

C7_BothErrors ==
    Parsed =>
        /\ FaceLines(file[1]) = << >> => result = Threw(NoFaces)
        /\ VertexLines(file[1]) = << >> => result = Threw(NoVertices)

\* C7 as amended: no face line gives the 'no faces' error, with or without
\* vertex lines; no vertex line gives the 'no vertices' error when there is
\* a face line.
C7_FacesCheckedFirst ==
    Parsed =>
        /\ FaceLines(file[1]) = << >> => result = Threw(NoFaces)
        /\ (VertexLines(file[1]) = << >> /\ FaceLines(file[1]) # << >>)
              => result = Threw(NoVertices)

\* A text with neither a vertex line nor a face line (its only line is a
\* face of four indices) has been parsed.
C7_Witness ==
    /\ Parsed
    /\ file[1] = <<LinePool[9]>>
    /\ result = Threw(NoFaces)

\* Some face line has an index outside 1..(number of vertex lines).
IndexOutOfRange(text) == FaceLines(text) # << >> /\ ~IndicesInRange(text)

\* C8 as stated: a face index outside the parsed vertex range makes parsing
\* fail with the error of the missing vertex, and no triangle is returned.
C8_IndexError ==
    Parsed /\ IndexOutOfRange(file[1]) => result = Threw(TypeError)

\* C8 as amended: the same, for a text that has a vertex line.
C8_IndexErrorWithVertices ==
    Parsed /\ IndexOutOfRange(file[1]) /\ VertexLines(file[1]) # << >>
        => result = Threw(TypeError)

\* A face with index 99 over three vertices has been parsed.
C8_Witness ==
    /\ Parsed
    /\ file[1] = <<LinePool[1], LinePool[2], LinePool[3], LinePool[7]>>
    /\ result = Threw(TypeError)

\* A 'v' or 'f' line that carries more than three fields: the face of four
\* indices and the vertex of four fields of LinePool.
CarriesMoreData(line) == PoolLine(line) \in {9, 12}

\* C14: a text with a 'v' or 'f' line that carries more than three fields
\* makes loading throw; it never returns triangles.
C14_MoreDataThrows ==
    (Parsed /\ \E i \in 1..Len(file[1]) : CarriesMoreData(file[1][i]))
        => result.status = "threw"

(***************************************************************************)
(* More claims about the frame pipeline, checked under Spec.               *)
(***************************************************************************)
\* C12: the projection matrix of every camera with far # near has
\* m[2][2] = far / (far - near), m[2][3] = 1 and
\* m[3][2] = -far * near / (far - near); m[i][j] of the source is
\* projectionMatrix[i+1][j+1] here.
C12_ProjectionMatrixDepth ==
    LET far  == renderer.camera.farPlane
        near == renderer.camera.nearPlane
    IN  far # near =>
          /\ renderer.projectionMatrix[3][3] = Div(far, Sub(far, near))
          /\ renderer.projectionMatrix[3][4] = Num(1)
          /\ renderer.projectionMatrix[4][3] = Div(Neg(Mul(far, near)), Sub(far, near))

\* C16: what "not stale" means.  The center is the centroid of the corners:
\* three times the center is A + B + C.  The corners of a projected triangle
\* have denominators whose products leave 32 bits, so the equation is
\* decided with its denominators cleared and modulo nine primes below
\* 2^15.5: both sides are below 2^127 and the product of the primes is above
\* 2^139, so they are equal exactly when they are equal modulo every prime.
Primes == <<46337, 46327, 46309, 46307, 46301, 46279, 46273, 46271, 46261>>

MulMod(a, b, p) == ((a % p) * (b % p)) % p

\* 3 * c = a + b + e, for rationals that are not NaN.
IsThirdOfSum(c, a, b, e) ==
    \A k \in 1..Len(Primes) :
        MulMod(MulMod(MulMod(MulMod(3, c.n, Primes[k]), a.d, Primes[k]), b.d, Primes[k]),
               e.d, Primes[k])
          = MulMod(c.d,
                   MulMod(MulMod(a.n, b.d, Primes[k]), e.d, Primes[k])
                     + MulMod(MulMod(b.n, a.d, Primes[k]), e.d, Primes[k])
                     + MulMod(MulMod(e.n, a.d, Primes[k]), b.d, Primes[k]),
                   Primes[k])

\* As 3 * c = a + b + e reads in the source language's numbers taken as
\* values: NaN on one side only is a difference.
IsCentroid(c, a, b, e) ==
    IF IsNaN(c) \/ IsNaN(a) \/ IsNaN(b) \/ IsNaN(e)
    THEN IsNaN(c) /\ (IsNaN(a) \/ IsNaN(b) \/ IsNaN(e))
    ELSE IsThirdOfSum(c, a, b, e)

FreshCenter(t) ==
    /\ IsCentroid(t.center.z, t.A.z, t.B.z, t.C.z)
    /\ IsCentroid(t.center.y, t.A.y, t.B.y, t.C.y)
    /\ IsCentroid(t.center.x, t.A.x, t.B.x, t.C.x)

\* (B - A) x (C - A)
Cross(t) ==
    LET u == Vec3d(Sub(t.B.x, t.A.x), Sub(t.B.y, t.A.y), Sub(t.B.z, t.A.z))
        w == Vec3d(Sub(t.C.x, t.A.x), Sub(t.C.y, t.A.y), Sub(t.C.z, t.A.z))
    IN  Vec3d(Sub(Mul(u.y, w.z), Mul(u.z, w.y)),
              Sub(Mul(u.z, w.x), Mul(u.x, w.z)),
              Sub(Mul(u.x, w.y), Mul(u.y, w.x)))

\* n is c / |c|: of length 1, parallel to c and on its side; NaN in every
\* component when c is the zero vector.
IsNormalised(n, c) ==
    IF c = V(0, 0, 0) THEN n = Vec3d(NaN, NaN, NaN)
    ELSE /\ Add(Add(Mul(n.x, n.x), Mul(n.y, n.y)), Mul(n.z, n.z)) = Num(1)
         /\ Sub(Mul(n.y, c.z), Mul(n.z, c.y)) = Num(0)
         /\ Sub(Mul(n.z, c.x), Mul(n.x, c.z)) = Num(0)
         /\ Sub(Mul(n.x, c.y), Mul(n.y, c.x)) = Num(0)
         /\ Lt(Num(0), Add(Add(Mul(n.x, c.x), Mul(n.y, c.y)), Mul(n.z, c.z)))

FreshNormal(t) == IsNormalised(t.normal, Cross(t))

Fresh(t) == FreshCenter(t) /\ FreshNormal(t)

\* C16 as stated: the center and the normal of every triangle, source or
\* working, are those of its current corners in every state.
C16_NeverStale ==
    \A i \in 1..Len(meshes) :
        /\ \A k \in 1..Len(meshes[i].initialTriangles) : Fresh(meshes[i].initialTriangles[k])
        /\ \A k \in 1..Len(meshes[i].processedTriangles) : Fresh(meshes[i].processedTriangles[k])

\* The working triangles of the mesh at index i have been through project.
Projected(i) == i = meshIdx /\ pc \in {"draw", "reset"}

FreshUntilProjected ==
    \A i \in 1..Len(meshes) :
        /\ \A k \in 1..Len(meshes[i].initialTriangles) : Fresh(meshes[i].initialTriangles[k])
        /\ ~Projected(i) =>
              \A k \in 1..Len(meshes[i].processedTriangles) : Fresh(meshes[i].processedTriangles[k])

\* Mesh.project reorders the triangles and leaves the center and the normal
\* of each as they were before it.
ProjectKeepsDerived ==
    pc = "project" =>
        \E p \in Permutations(Len(CurrentMesh.processedTriangles)) :
            \A k \in 1..Len(CurrentMesh.processedTriangles) :
                /\ meshes'[meshIdx].processedTriangles[k].center
                      = CurrentMesh.processedTriangles[p[k]].center
                /\ meshes'[meshIdx].processedTriangles[k].normal
                      = CurrentMesh.processedTriangles[p[k]].normal

\* C16 as amended: center and normal are those of the current corners after
\* construction and after any rotate and setLocation; project moves the
\* corners and keeps the center and the normal of before the projection.
C16_FreshUntilProjected == [](FreshUntilProjected) /\ [][ProjectKeepsDerived]_vars

\* A triangle of a mesh with a position other than zero has been rotated,
\* moved and then projected: its center is no longer that of its corners.
C16_Witness ==
    /\ pc = "draw"
    /\ CurrentConfig.position # V(0, 0, 0)
    /\ \E k \in 1..Len(CurrentMesh.processedTriangles) :
          ~FreshCenter(CurrentMesh.processedTriangles[k])

\* The corners of the source triangles rotated by rotation (x, then y, then
\* z) and then moved by position.
RotatedAndMoved(triangles, rotation, position) ==
    [i \in 1..Len(triangles) |->
        <<VecAdd(Vec3dRotate(triangles[i].A, rotation), position),
          VecAdd(Vec3dRotate(triangles[i].B, rotation), position),
          VecAdd(Vec3dRotate(triangles[i].C, rotation), position)>>]

RotationDisabled(i) == ~configs[meshes[i].config].rotationEnabled

\* C17: reset never changes a currentRotation; no step changes the
\* currentRotation of a mesh whose rotation is disabled, so it keeps the
\* value initialRotation had at construction; and every rotate of such a
\* mesh still leaves its working triangles rotated by that value and moved
\* by config.position.
C17_RotationKeptWhenDisabled ==
    [][/\ pc = "reset" => vec3d' = vec3d
       /\ \A i \in 1..Len(meshes) :
            RotationDisabled(i) =>
                vec3d'[meshes[i].currentRotation] = vec3d[meshes[i].currentRotation]
       /\ (pc = "rotate" /\ RotationDisabled(meshIdx)) =>
            Coordinates(meshes'[meshIdx].processedTriangles)
                = RotatedAndMoved(CurrentMesh.initialTriangles,
                                  vec3d[CurrentMesh.currentRotation],
                                  CurrentConfig.position)]_vars

\* A second frame has drawn a mesh whose rotation is disabled and whose
\* initialRotation is not zero.
C17_Witness ==
    /\ pc = "reset"
    /\ RotationDisabled(meshIdx)
    /\ vec3d[CurrentMesh.currentRotation] = V(90, 0, 0)
    /\ DrawnFor(meshIdx, 1) # {}
    /\ \E j \in 1..Len(meshes) : j # meshIdx /\ vec3d[meshes[j].currentRotation] = V(0, 180, 180)

C19_ExclusiveOwnership ==
    [][\A j \in 1..Len(meshes) :
          j # meshIdx =>
              /\ vec3d'[meshes'[j].currentRotation] = vec3d[meshes[j].currentRotation]
              /\ meshes'[j].processedTriangles = meshes[j].processedTriangles]_vars

(***************************************************************************)
(* The claims about single operations, checked under SpecUnit.             *)
(***************************************************************************)
\* C13: new MeshConfig with a color string returns; a string that matches
\* the pattern is stored unchanged and nothing is logged, every other string
\* is replaced by "#FFFFFF" and the warning is logged.
C13_ColorChecked ==
    (call.op = "MeshConfig" /\ "color" \in DOMAIN call.config /\ ret.status # "none") =>
        /\ ret.status = "returned"
        /\ IF ColorPattern(call.config.color)
           THEN ret.value.color = call.config.color /\ ret.logged = << >>
           ELSE ret.value.color = White /\ ret.logged = <<InvalidColorCode>>

\* The transform C15 takes as reference: x', y', z' and w from the original
\* x, y, z, then the division by w when w # 0.
ReferenceTransform(v, matrix) ==
    DivideByW(Vec3d(Column(v, matrix, 1), Column(v, matrix, 2), Column(v, matrix, 3)),
              Column(v, matrix, 4))

\* C15: multiplyByMatrix leaves the vector at the reference homogeneous
\* transform of its original x, y, z, for every vector and matrix.
C15_HomogeneousTransform ==
    (call.op = "multiplyByMatrix" /\ ret.status = "returned") =>
        ret.value = ReferenceTransform(call.this, call.matrix)

(***************************************************************************)
(* The claims about the page, checked under SpecApp.                       *)
(***************************************************************************)
\* C20: at most one animation-frame request is pending in every state, and
\* once the tree is unmounted none is pending and no frame is running, so
\* that Renderer.render is not called again.
OnePendingFrame ==
    /\ Cardinality(pending) <= 1
    /\ component = "unmounted" => pending = {} /\ pc = "idle"

\* C20: at most one animation-frame request is pending in every state, across
\* frames and re-renders; once the tree is unmounted none is pending, no
\* frame is running and no step draws or requests a frame again.
C20_OnePendingFrame ==
    /\ []OnePendingFrame
    /\ [][component = "unmounted" =>
            /\ pc' = pc /\ surface' = surface /\ meshes' = meshes
            /\ pending' = pending /\ nextId' = nextId]_vars

\* The tree has been unmounted after the re-render that followed the fetch
\* and after frames of both renders were requested.
C20_Witness ==
    /\ component = "unmounted"
    /\ fetching = "resolved"
    /\ meshes # << >>
    /\ meshes[1].initialTriangles # << >>
    /\ nextId > 4

\* The triangle list of every Mesh that App has constructed.
ConstructedLists ==
    { meshes[i].initialTriangles : i \in 1..Len(meshes) }
        \cup { rendered[k].meshes[1].initialTriangles : k \in 1..Len(rendered) }

\* C11 as stated: the fetch has resolved before a Mesh is constructed and
\* before a frame is rendered; no Mesh exists and no frame runs while the
\* fetch is unsent or pending.
C11_ResolvedBeforeMesh ==
    (ConstructedLists # {} \/ pc # "idle") => fetching = "resolved"

\* C11 as amended: a Mesh constructed before the fetch has resolved has an
\* empty triangle list and the frames rendered from it draw nothing; a Mesh
\* with triangles exists only once the fetch has resolved, and its triangles
\* are those parsed from the whole resolved text.
C11_EmptyUntilResolved ==
    /\ fetching # "resolved" => ConstructedLists \subseteq {<< >>} /\ surface = << >>
    /\ \A list \in ConstructedLists :
          list # << >> => fetching = "resolved" /\ Returned(list) = Parse(data.text)

\* A frame is being rendered from the Mesh of the first render while the
\* fetch is pending.
C11_Witness ==
    /\ fetching = "pending"
    /\ pc = "reset"
    /\ meshes # << >>
    /\ meshes[1].initialTriangles = << >>

\* The six hex digits of an accepted color string, in lower case.
LowerDigits(color) ==
    LET digits == IF color[1] = "#" THEN Tail(color) ELSE color
    IN  [i \in 1..6 |-> HexDigits[HexValue(digits[i]) + 1]]

\* C21: for every color string the MeshConfig constructor accepts, drawShaded
\* at full intensity (the light along the normal, dot = 1) writes '#' and
\* the six hex digits of that string in lower case.
C21_DecodingAgreesWithPattern ==
    (/\ call.op = "drawShaded"
     /\ ret.status = "returned"
     /\ ColorPattern(call.color)
     /\ dot(normalize(call.lightSource), call.triangle.normal) = Num(1))
        => ret.value = <<"#">> \o LowerDigits(call.color)

=============================================================================
